---- MODULE Spec2Model ----
(***************************************************************************)
(* A model of src/Instance.ts: the Instance of the player, its asynchronous *)
(* init() chain, setError(), destroy(), canAutoplay() and getModule().     *)
(*                                                                         *)
(* init() is an async function: every `await` is a suspension point, and   *)
(* the code between two awaits runs without interruption.  Each action     *)
(* init_* below is one such continuation.  destroy() is a public,          *)
(* synchronous method: the host page may call it between any two           *)
(* continuations, because the constructor starts init() and drops its      *)
(* promise.                                                                *)
(*                                                                         *)
(* The module loader (createFirstSupported, createAllSupported), the media *)
(* selector (selectMedia) and getEnv are imported by Instance.ts and are   *)
(* not part of the sources at hand; they are modelled from their written   *)
(* description.  The polyfill import and getEnv are taken to resolve;     *)
(* controller.boot() and controller.load() may resolve or reject.          *)
(***************************************************************************)
EXTENDS Integers, Sequences, FiniteSets, TLC

\* ------------------------------------------------------------------ bounds
\* How many times the host page calls destroy().
MaxDestroy == 2
\* The length of the Controller and of the Player registry.
MaxCand == 2
\* The length of the Extension registry.
MaxExt == 2
\* The number of source descriptors in config.sources.
MaxSources == 1
\* The number of registered formats.
MaxFormats == 1
\* The length of a registry when the module loader is called on its own.
RegLen == 3
\* The sources and the formats when the media selector is called on its own.
SelSources == 2
SelFormats == 2

\* ------------------------------------------------------------ value domain
\* A field that was never assigned, and a field assigned null.
Undefined == [role |-> "undefined", name |-> 0]
Null == [role |-> "null", name |-> 0]

\* x == null in the source language: what `!x` and `x.m()` trip over.
IsNil(x) == x = Undefined \/ x = Null

\* A constructed module of a role.
Module(role, name) == [role |-> role, name |-> name]

\* The names of the events of the instance.
EventNames == {"ready", "error", "destroy"}

\* The causes controller.load() may reject with.
LoadCauses == {"E1", "E2"}

\* new PlayerError(code, underlyingError)
PlayerError(code, cause) == [code |-> code, cause |-> cause]
NoData == PlayerError("none", "none")

\* One entry of the trace of observable effects.
Effect(op, arg, by) ==
    [op |-> op, arg |-> arg, by |-> by, heard |-> FALSE, data |-> NoData]

\* An awaited promise settling: kind is "resolve" or "reject".
Settle(kind, what, cause) ==
    [op |-> kind, arg |-> what, by |-> "init", heard |-> FALSE,
     data |-> PlayerError("none", cause)]

VARIABLES
    config,        \* this.config: ignorePolyfills, autoplay
    env,           \* this.env
    controller,    \* this.controller
    player,        \* this.player
    media,         \* this.media
    format,        \* this.format
    extensions,    \* this.extensions
    listeners,     \* the event names the emitter holds a listener for
    container,     \* this.container: its children and whether it is attached
    pc,            \* where init() is suspended, or how it ended
    rejection,     \* what the promise of init() rejected with
    log,           \* the trace of observable effects, in order
    destroyCalls,  \* how many times destroy() was called
    destroyedAt,   \* the value of pc at the first call of destroy()
    call           \* the call made from outside init() and destroy() in the
                   \* last step, if any: its arguments and what it did

vars == <<config, env, controller, player, media, format, extensions,
          listeners, container, pc, rejection, log, destroyCalls, destroyedAt,
          call>>

\* --------------------------------------------------- the module loader
\* A registry: an ordered list of candidate classes with distinct names,
\* each with the value of its support predicate.
Registries(n) ==
    UNION { { r \in [1..k -> [name : 1..n, supported : BOOLEAN]] :
                \A i, j \in 1..k : i # j => r[i].name # r[j].name } : k \in 0..n }

\* The registries whose candidates are named by their position.
OrderedRegistries(n) ==
    { r \in Registries(n) : \A i \in 1..Len(r) : r[i].name = i }

\* The index of the first supported candidate at or after i, 0 if none.
RECURSIVE FirstSupportedFrom(_, _)
FirstSupportedFrom(reg, i) ==
    IF i > Len(reg) THEN 0
    ELSE IF reg[i].supported THEN i
    ELSE FirstSupportedFrom(reg, i + 1)

\* The index of the last supported candidate at or before i, 0 if none.
RECURSIVE LastSupportedUpTo(_, _)
LastSupportedUpTo(reg, i) ==
    IF i = 0 THEN 0
    ELSE IF reg[i].supported THEN i
    ELSE LastSupportedUpTo(reg, i - 1)

\* createFirstSupported scanning the registry from its end.
createFirstSupported_last(role, reg) ==
    LET i == LastSupportedUpTo(reg, Len(reg)) IN
    IF i = 0
    THEN [ok |-> FALSE, module |-> Undefined, constructed |-> <<>>,
          error |-> "NoSupportedModule"]
    ELSE [ok |-> TRUE, module |-> Module(role, reg[i].name),
          constructed |-> <<reg[i].name>>, error |-> "none"]

\* createFirstSupported resolving with null when nothing is supported.
createFirstSupported_null(role, reg) ==
    LET i == FirstSupportedFrom(reg, 1) IN
    IF i = 0
    THEN [ok |-> TRUE, module |-> Null, constructed |-> <<>>, error |-> "none"]
    ELSE [ok |-> TRUE, module |-> Module(role, reg[i].name),
          constructed |-> <<reg[i].name>>, error |-> "none"]

\* createFirstSupported(type, instance): the first supported candidate,
\* constructed; a rejection with NoSupportedModule when there is none.
createFirstSupported(role, reg) ==
    LET i == FirstSupportedFrom(reg, 1) IN
    IF i = 0
    THEN [ok |-> FALSE, module |-> Undefined, constructed |-> <<>>,
          error |-> "NoSupportedModule"]
    ELSE [ok |-> TRUE, module |-> Module(role, reg[i].name),
          constructed |-> <<reg[i].name>>, error |-> "none"]

\* createAllSupported(type, instance): every supported candidate, in
\* registry order.
RECURSIVE AllSupportedFrom(_, _, _)
AllSupportedFrom(role, reg, i) ==
    IF i > Len(reg) THEN <<>>
    ELSE IF reg[i].supported
         THEN <<Module(role, reg[i].name)>> \o AllSupportedFrom(role, reg, i + 1)
         ELSE AllSupportedFrom(role, reg, i + 1)

\* createAllSupported collecting the supported candidates in reverse.
RECURSIVE AllSupportedReversed(_, _, _)
AllSupportedReversed(role, reg, i) ==
    IF i > Len(reg) THEN <<>>
    ELSE IF reg[i].supported
         THEN AllSupportedReversed(role, reg, i + 1) \o <<Module(role, reg[i].name)>>
         ELSE AllSupportedReversed(role, reg, i + 1)

createAllSupported_reversed(role, reg) == AllSupportedReversed(role, reg, 1)

createAllSupported(role, reg) == AllSupportedFrom(role, reg, 1)

\* ---------------------------------------------------- the media selector
\* canPlay[s][f]: the backend of format f can play source s.
PlayMatrices(nS, nF) == [1..nS -> [1..nF -> BOOLEAN]]

NotFound == [found |-> FALSE, format |-> 0, source |-> 0]

\* The scan of the cross product: sources in configuration order, and for
\* each source the formats in registration order.
RECURSIVE SelectFrom(_, _, _, _, _)
SelectFrom(nS, nF, canPlay, s, f) ==
    IF s > nS THEN NotFound
    ELSE IF f > nF THEN SelectFrom(nS, nF, canPlay, s + 1, 1)
    ELSE IF canPlay[s][f] THEN [found |-> TRUE, format |-> f, source |-> s]
    ELSE SelectFrom(nS, nF, canPlay, s, f + 1)

\* The scan with the formats in the outer loop.
RECURSIVE SelectFormatMajor(_, _, _, _, _)
SelectFormatMajor(nS, nF, canPlay, s, f) ==
    IF f > nF THEN NotFound
    ELSE IF s > nS THEN SelectFormatMajor(nS, nF, canPlay, 1, f + 1)
    ELSE IF canPlay[s][f] THEN [found |-> TRUE, format |-> f, source |-> s]
    ELSE SelectFormatMajor(nS, nF, canPlay, s + 1, f)

selectMedia_formatMajor(nS, nF, canPlay) ==
    SelectFormatMajor(nS, nF, canPlay, 1, 1)

\* selectMedia(instance, sources): [format, media] or the empty pair.
selectMedia(nS, nF, canPlay) == SelectFrom(nS, nF, canPlay, 1, 1)

\* ------------------------------------------------------------ the emitter
\* emit(name, eventData): the listeners of name, if any, receive the event.
emit(lg, ls, name, data, by) ==
    Append(lg, [op |-> "emit", arg |-> name, by |-> by,
                heard |-> name \in ls, data |-> data])

\* ------------------------------------------------------ Instance methods
\* setError(error): unload the controller, then emit the error.  With no
\* controller the call of unload throws a TypeError before anything else.
setError(lg, ls, ctrl, error, by) ==
    IF IsNil(ctrl)
    THEN [threw |-> TRUE, log |-> lg]
    ELSE [threw |-> FALSE,
          log |-> emit(Append(lg, Effect("unload", "controller", by)),
                       ls, "error", error, by)]

\* canAutoplay with the environment ignored.
canAutoplay_configOnly(cfg, e) == cfg.autoplay

\* canAutoplay()
canAutoplay(cfg, e) == cfg.autoplay /\ e.canAutoplay

\* play(): delegates to the controller; throws a TypeError without one.
play(lg, ctrl, by) ==
    IF IsNil(ctrl)
    THEN [threw |-> TRUE, log |-> Append(lg, Effect("play", "instance", by))]
    ELSE [threw |-> FALSE,
          log |-> Append(Append(lg, Effect("play", "instance", by)),
                         Effect("play", "controller", by))]

\* pause(), seekTo(time), setVolume(volume): the same delegation.
pause(lg, ctrl, by) ==
    IF IsNil(ctrl)
    THEN [threw |-> TRUE, log |-> Append(lg, Effect("pause", "instance", by))]
    ELSE [threw |-> FALSE,
          log |-> Append(Append(lg, Effect("pause", "instance", by)),
                         Effect("pause", "controller", by))]

seekTo(lg, ctrl, by) ==
    IF IsNil(ctrl)
    THEN [threw |-> TRUE, log |-> Append(lg, Effect("seekTo", "instance", by))]
    ELSE [threw |-> FALSE,
          log |-> Append(Append(lg, Effect("seekTo", "instance", by)),
                         Effect("seekTo", "controller", by))]

setVolume(lg, ctrl, by) ==
    IF IsNil(ctrl)
    THEN [threw |-> TRUE, log |-> Append(lg, Effect("setVolume", "instance", by))]
    ELSE [threw |-> FALSE,
          log |-> Append(Append(lg, Effect("setVolume", "instance", by)),
                         Effect("setVolume", "controller", by))]

\* The playback operations of the Instance.
PlaybackOps == {"play", "pause", "seekTo", "setVolume"}

Playback(op, lg, ctrl, by) ==
    CASE op = "play" -> play(lg, ctrl, by)
      [] op = "pause" -> pause(lg, ctrl, by)
      [] op = "seekTo" -> seekTo(lg, ctrl, by)
      [] op = "setVolume" -> setVolume(lg, ctrl, by)

\* destroy() with the format left in place.
destroyFields_keepFormat == [controller |-> Null, player |-> Null,
                             format |-> format, media |-> Null]

\* destroy() with the media left in place.
destroyFields_keepMedia == [controller |-> Null, player |-> Null,
                            format |-> Null, media |-> media]

\* The references destroy() nulls.
destroyFields == [controller |-> Null, player |-> Null,
                  format |-> Null, media |-> Null]

\* createContainers(element): three children, appended to the host element.
createContainers == [children |-> 3, attached |-> TRUE]

\* The container once destroy() has removed its children and itself.
destroyContainer == [children |-> 0, attached |-> FALSE]

\* The check of the media forgotten.
mediaMissing_never(m) == FALSE

\* `!media` in init()
mediaMissing(m) == IsNil(m)

\* The result of the not-found branch and of the catch branch of init():
\* setError(...); return.
InitFail(lg, error) ==
    LET e == setError(lg, listeners, controller, error, "init") IN
    /\ log' = e.log
    /\ pc' = IF e.threw THEN "rejected" ELSE "error"
    /\ rejection' = IF e.threw THEN "TypeError" ELSE rejection

\* A rejection caught and turned into setError, as the later stages do.
InitReject_caught(lg, why) == InitFail(lg, PlayerError(why, "none"))

\* An awaited promise rejects outside any try block: init() rejects with
\* the same failure and nothing else runs.
InitReject(lg, why) ==
    /\ log' = lg
    /\ pc' = "rejected"
    /\ rejection' = why

\* getModule(name): the first of [...extensions, controller, media, player]
\* with that name; undefined when there is none.  Spreading extensions
\* before it is set throws a TypeError.
RECURSIVE FindByName(_, _, _)
FindByName(modules, name, i) ==
    IF i > Len(modules) THEN Undefined
    ELSE IF ~IsNil(modules[i]) /\ modules[i].name = name THEN modules[i]
    ELSE FindByName(modules, name, i + 1)

getModule(name) ==
    IF ~extensions.defined
    THEN [role |-> "TypeError", name |-> 0]
    ELSE FindByName(extensions.list \o <<controller, media, player>>, name, 1)

\* The last step was no call from outside.
NoCall == [fn |-> "none"]

\* ----------------------------------------------------------------- Init
\* The state once the constructor has returned: the containers exist, the
\* emitter exists, init() has run up to its first await, and the host page
\* has registered its listeners.
Init ==
    /\ config \in [ignorePolyfills : BOOLEAN, autoplay : BOOLEAN]
    /\ env = [defined |-> FALSE, canAutoplay |-> FALSE]
    /\ controller = Undefined
    /\ player = Undefined
    /\ media = Undefined
    /\ format = Undefined
    /\ extensions = [defined |-> FALSE, list |-> <<>>]
    /\ listeners = EventNames
    /\ container = createContainers
    /\ pc = IF config.ignorePolyfills THEN "getEnv" ELSE "polyfill"
    /\ rejection = "none"
    /\ log = IF config.ignorePolyfills
             THEN <<Effect("call", "getEnv", "init")>>
             ELSE <<Effect("call", "import", "init")>>
    /\ destroyCalls = 0
    /\ destroyedAt = "none"
    /\ call = NoCall

\* ------------------------------------------------ the continuations of init
\* await import('ts-polyfill') resolved: getEnv() is called.
init_polyfill ==
    /\ pc = "polyfill"
    /\ pc' = "getEnv"
    /\ log' = Append(Append(log, Settle("resolve", "import", "none")),
                     Effect("call", "getEnv", "init"))
    /\ call' = NoCall
    /\ UNCHANGED <<config, env, controller, player, media, format, extensions,
                   listeners, container, rejection, destroyCalls, destroyedAt>>

\* await getEnv() resolved: this.env is set, the controller is asked for.
init_getEnv ==
    /\ pc = "getEnv"
    /\ \E b \in BOOLEAN : env' = [defined |-> TRUE, canAutoplay |-> b]
    /\ pc' = "createController"
    /\ log' = Append(Append(log, Settle("resolve", "getEnv", "none")),
                     Effect("call", "createFirstSupported.Controller", "init"))
    /\ call' = NoCall
    /\ UNCHANGED <<config, controller, player, media, format, extensions,
                   listeners, container, rejection, destroyCalls, destroyedAt>>

\* The same continuation with the `await` of boot() forgotten: the
\* extensions are asked for at once.
init_createController_bootNotAwaited ==
    /\ pc = "createController"
    /\ \E reg \in OrderedRegistries(MaxCand) :
         LET r == createFirstSupported("Controller", reg) IN
         IF r.ok
         THEN /\ controller' = r.module
              /\ pc' = "createExtensions"
              /\ log' = Append(Append(Append(log,
                           Settle("resolve", "createFirstSupported.Controller", "none")),
                           Effect("boot", "controller", "init")),
                           Effect("call", "createAllSupported.Extension", "init"))
              /\ UNCHANGED rejection
         ELSE /\ InitReject(Append(log, Settle("reject",
                                "createFirstSupported.Controller", "NoSupportedModule")),
                            "NoSupportedModule")
              /\ UNCHANGED controller
    /\ call' = NoCall
    /\ UNCHANGED <<config, env, player, media, format, extensions,
                   listeners, container, destroyCalls, destroyedAt>>

\* await createFirstSupported(CONTROLLER) settled: on a rejection init()
\* rejects; otherwise this.controller is set and boot() is called.
init_createController ==
    /\ pc = "createController"
    /\ \E reg \in OrderedRegistries(MaxCand) :
         LET r == createFirstSupported("Controller", reg) IN
         IF r.ok
         THEN /\ controller' = r.module
              /\ pc' = "boot"
              /\ log' = Append(Append(log,
                           Settle("resolve", "createFirstSupported.Controller", "none")),
                           Effect("boot", "controller", "init"))
              /\ UNCHANGED rejection
         ELSE /\ InitReject(Append(log, Settle("reject",
                                "createFirstSupported.Controller", "NoSupportedModule")),
                            "NoSupportedModule")
              /\ UNCHANGED controller
    /\ call' = NoCall
    /\ UNCHANGED <<config, env, player, media, format, extensions,
                   listeners, container, destroyCalls, destroyedAt>>

\* await this.controller.boot() settled: on a rejection init() rejects;
\* otherwise the extensions are asked for.
init_boot ==
    /\ pc = "boot"
    /\ \E ok \in BOOLEAN :
         IF ok
         THEN /\ pc' = "createExtensions"
              /\ log' = Append(Append(log, Settle("resolve", "boot", "none")),
                               Effect("call", "createAllSupported.Extension", "init"))
              /\ UNCHANGED rejection
         ELSE InitReject(Append(log, Settle("reject", "boot", "BootFailed")),
                         "BootFailed")
    /\ call' = NoCall
    /\ UNCHANGED <<config, env, controller, player, media, format, extensions,
                   listeners, container, destroyCalls, destroyedAt>>

\* await createAllSupported(EXTENSION) resolved: this.extensions is set and
\* the player is asked for.
init_createExtensions ==
    /\ pc = "createExtensions"
    /\ \E reg \in OrderedRegistries(MaxExt) :
         extensions' = [defined |-> TRUE,
                        list |-> createAllSupported("Extension", reg)]
    /\ pc' = "createPlayer"
    /\ log' = Append(Append(log, Settle("resolve", "createAllSupported.Extension", "none")),
                     Effect("call", "createFirstSupported.Player", "init"))
    /\ call' = NoCall
    /\ UNCHANGED <<config, env, controller, player, media, format,
                   listeners, container, rejection, destroyCalls, destroyedAt>>

\* await createFirstSupported(PLAYER) settled: on a rejection init() rejects;
\* otherwise this.player is set and selectMedia() is called.
init_createPlayer ==
    /\ pc = "createPlayer"
    /\ \E reg \in OrderedRegistries(MaxCand) :
         LET r == createFirstSupported("Player", reg) IN
         IF r.ok
         THEN /\ player' = r.module
              /\ pc' = "selectMedia"
              /\ log' = Append(Append(log,
                           Settle("resolve", "createFirstSupported.Player", "none")),
                           Effect("call", "selectMedia", "init"))
              /\ UNCHANGED rejection
         ELSE /\ InitReject(Append(log, Settle("reject",
                                "createFirstSupported.Player", "NoSupportedModule")),
                            "NoSupportedModule")
              /\ UNCHANGED player
    /\ call' = NoCall
    /\ UNCHANGED <<config, env, controller, media, format, extensions,
                   listeners, container, destroyCalls, destroyedAt>>

\* await selectMedia() resolved.  Without a media: setError and return.
\* Otherwise format and media are bound and controller.load() is called
\* inside the try block; with no controller that call throws a TypeError,
\* which the catch block hands to setError.
init_selectMedia ==
    /\ pc = "selectMedia"
    /\ \E nS \in 0..MaxSources, nF \in 0..MaxFormats :
       \E canPlay \in PlayMatrices(nS, nF) :
         LET r == selectMedia(nS, nF, canPlay)
             m == IF r.found THEN Module("Media", r.format) ELSE Undefined
             f == IF r.found THEN Module("Format", r.format) ELSE Undefined
         IN
         IF mediaMissing(m)
         THEN /\ InitFail(Append(log, Settle("resolve", "selectMedia.none", "none")),
                          PlayerError("NO_SUPPORTED_FORMAT_FOUND", "none"))
              /\ UNCHANGED <<format, media>>
         ELSE /\ format' = f
              /\ media' = m
              /\ IF IsNil(controller)
                 THEN InitFail(Append(log, Settle("resolve", "selectMedia.pair", "none")),
                               PlayerError("CONTROLLER_LOAD_FAILED", "TypeError"))
                 ELSE /\ pc' = "load"
                      /\ log' = Append(Append(log,
                                   Settle("resolve", "selectMedia.pair", "none")),
                                   Effect("load", "controller", "init"))
                      /\ UNCHANGED rejection
    /\ call' = NoCall
    /\ UNCHANGED <<config, env, controller, player, extensions,
                   listeners, container, destroyCalls, destroyedAt>>

\* await this.controller.load() settled.  On a rejection: setError with the
\* cause and return.  Otherwise the ready event is emitted and, when
\* canAutoplay(), play() is called.
init_load ==
    /\ pc = "load"
    /\ \/ \E cause \in LoadCauses :
            InitFail(Append(log, Settle("reject", "load", cause)),
                     PlayerError("CONTROLLER_LOAD_FAILED", cause))
       \/ LET lg == emit(Append(log, Settle("resolve", "load", "none")),
                         listeners, "ready", NoData, "init") IN
          IF canAutoplay(config, env)
          THEN LET p == play(lg, controller, "init") IN
               /\ log' = p.log
               /\ pc' = IF p.threw THEN "rejected" ELSE "ready"
               /\ rejection' = IF p.threw THEN "TypeError" ELSE rejection
          ELSE /\ log' = lg
               /\ pc' = "ready"
               /\ UNCHANGED rejection
    /\ call' = NoCall
    /\ UNCHANGED <<config, env, controller, player, media, format, extensions,
                   listeners, container, destroyCalls, destroyedAt>>

\* ---------------------------------------------------------------- destroy
\* destroy() with the destroy event emitted after the teardown.
destroyTrace_emitLast(lg, ls, ctrl) ==
    LET a == Append(lg, Effect("call", "removeAllListeners", "destroy")) IN
    IF IsNil(ctrl)
    THEN Append(a, Effect("throw", "TypeError", "destroy"))
    ELSE emit(Append(Append(Append(a, Effect("unload", "controller", "destroy")),
                            Effect("release", "references", "destroy")),
                     Effect("detach", "container", "destroy")),
              {}, "destroy", NoData, "destroy")

\* What destroy() does, in the order of its statements: emit the destroy
\* event, remove all listeners, unload the controller (a TypeError without
\* one), null the references, empty and detach the container.
destroyTrace(lg, ls, ctrl) ==
    LET a == Append(emit(lg, ls, "destroy", NoData, "destroy"),
                    Effect("call", "removeAllListeners", "destroy")) IN
    IF IsNil(ctrl)
    THEN Append(a, Effect("throw", "TypeError", "destroy"))
    ELSE Append(Append(Append(a, Effect("unload", "controller", "destroy")),
                       Effect("release", "references", "destroy")),
                Effect("detach", "container", "destroy"))

\* destroy(): emit the destroy event, remove all listeners, unload the
\* controller, null the four references, empty and detach the container.
\* With no controller the call of unload throws a TypeError and the rest of
\* the method does not run.
destroy ==
    /\ destroyCalls < MaxDestroy
    /\ destroyCalls' = destroyCalls + 1
    /\ destroyedAt' = IF destroyCalls = 0 THEN pc ELSE destroyedAt
    /\ listeners' = {}
    /\ log' = destroyTrace(log, listeners, controller)
    /\ IF IsNil(controller)
       THEN UNCHANGED <<controller, player, format, media, container>>
       ELSE /\ controller' = destroyFields.controller
            /\ player' = destroyFields.player
            /\ format' = destroyFields.format
            /\ media' = destroyFields.media
            /\ container' = destroyContainer
    /\ call' = NoCall
    /\ UNCHANGED <<config, env, extensions, pc, rejection>>

Next ==
    \/ init_polyfill
    \/ init_getEnv
    \/ init_createController
    \/ init_boot
    \/ init_createExtensions
    \/ init_createPlayer
    \/ init_selectMedia
    \/ init_load
    \/ destroy

Spec == Init /\ [][Next]_vars

\* ------------------------------------------- calls from outside init()
\* The host page calls play(), pause(), seekTo() or setVolume(), at any
\* time.  Without a controller the delegation throws a TypeError.
host_playback ==
    /\ \E op \in PlaybackOps :
         LET r == Playback(op, <<>>, controller, "host") IN
         call' = [fn |-> op, threw |-> r.threw, effects |-> r.log]
    /\ UNCHANGED <<config, env, controller, player, media, format,
                   extensions, listeners, container, pc, rejection, log,
                   destroyCalls, destroyedAt>>

\* The Instance with its playback operations called at any time.
NextPlayback ==
    \/ Next
    \/ host_playback

SpecPlayback == Init /\ [][NextPlayback]_vars

\* setError() releasing the controller after unloading it.
host_setError_releases ==
    /\ \E cause \in LoadCauses :
         LET error == PlayerError("HOST_ERROR", cause)
             e == setError(<<>>, listeners, controller, error, "host")
         IN /\ call' = [fn |-> "setError", error |-> error,
                        threw |-> e.threw, effects |-> e.log]
            /\ controller' = IF e.threw THEN controller ELSE Null
    /\ UNCHANGED <<config, env, player, media, format,
                   extensions, listeners, container, pc, rejection, log,
                   destroyCalls, destroyedAt>>

\* The host page or a module calls setError(error), at any time.  Without
\* a controller the call throws a TypeError.
host_setError ==
    /\ \E cause \in LoadCauses :
         LET error == PlayerError("HOST_ERROR", cause)
             e == setError(<<>>, listeners, controller, error, "host")
         IN call' = [fn |-> "setError", error |-> error,
                     threw |-> e.threw, effects |-> e.log]
    /\ UNCHANGED <<config, env, controller, player, media, format,
                   extensions, listeners, container, pc, rejection, log,
                   destroyCalls, destroyedAt>>

\* The Instance with setError() called at any time.
NextSetError ==
    \/ Next
    \/ host_setError

SpecSetError == Init /\ [][NextSetError]_vars

\* ------------------------- the module loader and the selector on their own
\* No Instance is running: only the loader and the selector are called.
InitLoader ==
    /\ config = [ignorePolyfills |-> TRUE, autoplay |-> FALSE]
    /\ env = [defined |-> FALSE, canAutoplay |-> FALSE]
    /\ controller = Undefined
    /\ player = Undefined
    /\ media = Undefined
    /\ format = Undefined
    /\ extensions = [defined |-> FALSE, list |-> <<>>]
    /\ listeners = {}
    /\ container = createContainers
    /\ pc = "loader"
    /\ rejection = "none"
    /\ log = <<>>
    /\ destroyCalls = 0
    /\ destroyedAt = "none"
    /\ call = NoCall

Roles == {"Controller", "Player", "Extension"}

\* createFirstSupported is called with a role and a registry.
call_createFirstSupported ==
    /\ pc = "loader"
    /\ \E role \in Roles, reg \in Registries(RegLen) :
         call' = [fn |-> "createFirstSupported", role |-> role, reg |-> reg,
                  result |-> createFirstSupported(role, reg)]
    /\ UNCHANGED <<config, env, controller, player, media, format,
                   extensions, listeners, container, pc, rejection, log,
                   destroyCalls, destroyedAt>>

\* createAllSupported is called with a role and a registry.
call_createAllSupported ==
    /\ pc = "loader"
    /\ \E role \in Roles, reg \in Registries(RegLen) :
         call' = [fn |-> "createAllSupported", role |-> role, reg |-> reg,
                  result |-> createAllSupported(role, reg)]
    /\ UNCHANGED <<config, env, controller, player, media, format,
                   extensions, listeners, container, pc, rejection, log,
                   destroyCalls, destroyedAt>>

\* selectMedia is called with sources, formats and what each can play.
call_selectMedia ==
    /\ pc = "loader"
    /\ \E nS \in 0..SelSources, nF \in 0..SelFormats :
       \E canPlay \in PlayMatrices(nS, nF) :
         call' = [fn |-> "selectMedia", nS |-> nS, nF |-> nF,
                  canPlay |-> canPlay,
                  result |-> selectMedia(nS, nF, canPlay)]
    /\ UNCHANGED <<config, env, controller, player, media, format,
                   extensions, listeners, container, pc, rejection, log,
                   destroyCalls, destroyedAt>>

NextLoader ==
    \/ call_createFirstSupported
    \/ call_createAllSupported
    \/ call_selectMedia

SpecLoader == InitLoader /\ [][NextLoader]_vars

\* ------------------------------------------------ the stages of init()
\* What starts each stage of init(), in the order of its statements.
StageStart ==
    << <<"call", "import">>, <<"call", "getEnv">>,
       <<"call", "createFirstSupported.Controller">>, <<"boot", "controller">>,
       <<"call", "createAllSupported.Extension">>,
       <<"call", "createFirstSupported.Player">>, <<"call", "selectMedia">>,
       <<"load", "controller">>, <<"emit", "ready">> >>

\* The promise whose resolution completes each stage but the last.
StageDone ==
    << "import", "getEnv", "createFirstSupported.Controller", "boot",
       "createAllSupported.Extension", "createFirstSupported.Player",
       "selectMedia.pair", "load" >>

\* ------------------------------------------------- reading the trace
\* The positions of the trace holding an effect.
At(op, arg) == { i \in DOMAIN log : log[i].op = op /\ log[i].arg = arg }
AtBy(op, arg, by) == { i \in At(op, arg) : log[i].by = by }
Count(op, arg) == Cardinality(At(op, arg))
CountBy(op, arg, by) == Cardinality(AtBy(op, arg, by))

\* The names a module may have.
Names == 1..(MaxCand + MaxExt + MaxFormats)

\* init() has returned or rejected.
InitDone == pc \in {"ready", "error", "rejected"}

\* The lifecycle states, read off the fields.
Ready == CountBy("emit", "ready", "init") = 1 /\ destroyCalls = 0
InError == CountBy("emit", "error", "init") = 1 /\ destroyCalls = 0
DestroyedAfterInit == destroyedAt \in {"ready", "error"}

PairSelected == At("resolve", "selectMedia.pair") # {}
NoneSelected == At("resolve", "selectMedia.none") # {}
LoadResolved == At("resolve", "load") # {}
LoadRejected == At("reject", "load") # {}

\* ------------------------------------------------------------------ C1
\* C1: for every run of init(): when media selection returned a pair and
\* controller.load() resolved, init() emitted exactly one ready event and no
\* error event; when media selection returned no pair or controller.load()
\* rejected, init() emitted exactly one error event and no ready event.
C1_EventsPerOutcome ==
    InitDone =>
        /\ (PairSelected /\ LoadResolved) =>
              /\ CountBy("emit", "ready", "init") = 1
              /\ CountBy("emit", "error", "init") = 0
        /\ (NoneSelected \/ LoadRejected) =>
              /\ CountBy("emit", "error", "init") = 1
              /\ CountBy("emit", "ready", "init") = 0

\* ------------------------------------------------------------------ C2
\* C2: once the media selector has returned the not-found sentinel, the
\* Instance is in Error, having emitted one error event, which carries
\* NoSupportedFormatFound; the ready event is never emitted and
\* controller.load() is never invoked.
C2_NoSupportedFormat ==
    NoneSelected =>
        /\ pc = "error"
        /\ CountBy("emit", "error", "init") = 1
        /\ \A i \in AtBy("emit", "error", "init") :
              log[i].data = PlayerError("NO_SUPPORTED_FORMAT_FOUND", "none")
        /\ Count("emit", "ready") = 0
        /\ Count("load", "controller") = 0

\* ------------------------------------------------------------------ C3
\* C3: once controller.load() has rejected with a cause, the Instance is in
\* Error, having emitted one error event, which carries ControllerLoadFailed
\* wrapping that cause; and when that event is emitted controller.unload()
\* has been called exactly once.
C3_LoadFailed ==
    LoadRejected =>
        /\ pc = "error"
        /\ CountBy("emit", "error", "init") = 1
        /\ \A i \in AtBy("emit", "error", "init") :
              /\ log[i].data.code = "CONTROLLER_LOAD_FAILED"
              /\ \A j \in At("reject", "load") : log[i].data.cause = log[j].data.cause
              /\ Cardinality({ k \in At("unload", "controller") : k < i }) = 1

\* ------------------------------------------------------------------ C4
\* C4: a second call of destroy(), on an Instance first destroyed from Ready
\* or Error, throws nothing and has no side effect: no further unload, no
\* further event delivered, no field changed.
C4_DestroyIdempotent ==
    [][ (destroyCalls >= 1 /\ destroyCalls' = destroyCalls + 1
            /\ DestroyedAfterInit) =>
          /\ Count("throw", "TypeError")' = Count("throw", "TypeError")
          /\ Count("unload", "controller")' = Count("unload", "controller")
          /\ { i \in DOMAIN log' : log'[i].heard } = { i \in DOMAIN log : log[i].heard }
          /\ UNCHANGED <<controller, player, media, format, extensions,
                         listeners, container>> ]_vars

\* ------------------------------------------------------------------ C5
\* C5: after the first destroy() on an Instance that had reached Ready,
\* getModule(name) returns nothing for every name.
C5_GetModuleAfterDestroy ==
    (destroyedAt = "ready") => \A n \in Names : getModule(n) = Undefined

\* ------------------------------------------------------------------ C6
\* C6: init() has invoked play() if and only if it has emitted the ready
\* event and config.autoplay and env.canAutoplay are both true, and the
\* call of play() comes after the ready event.
C6_Autoplay ==
    /\ (CountBy("play", "instance", "init") >= 1) <=>
          (CountBy("emit", "ready", "init") >= 1
             /\ config.autoplay /\ env.canAutoplay)
    /\ CountBy("play", "instance", "init") <= 1
    /\ \A p \in AtBy("play", "instance", "init") :
          \E r \in AtBy("emit", "ready", "init") : r < p

\* Ready with autoplay asked for and permitted, and play() called.
C6_Witness ==
    /\ pc = "ready"
    /\ config.autoplay /\ env.canAutoplay
    /\ CountBy("play", "controller", "init") = 1

\* ------------------------------------------------------------------ C7
\* C7: whenever the ready event has been emitted and destroy() has not been
\* called, the controller, the player, the format and the media are all
\* non-null.
C7_ReadyHasModules ==
    Ready => /\ ~IsNil(controller)
             /\ ~IsNil(player)
             /\ ~IsNil(format)
             /\ ~IsNil(media)

\* Ready, not destroyed.
C7_Witness == Ready /\ pc = "ready" /\ media.role = "Media"

\* ------------------------------------------------------------------ C8
\* C8 as claimed: in Error, or Destroyed from Ready or Error, the
\* controller, player and media references have been released.
C8_ErrorOrDestroyedReleased ==
    (InError \/ DestroyedAfterInit) =>
        IsNil(controller) /\ IsNil(player) /\ IsNil(media)

\* C8 as amended: once the Instance has been Destroyed from Ready or Error,
\* the controller, player, format and media references are null; in Error
\* they have not been released: the controller and the player are still
\* held, and so is the media when the failure was that of controller.load().
C8_DestroyedReleased ==
    /\ DestroyedAfterInit =>
          /\ controller = Null
          /\ player = Null
          /\ format = Null
          /\ media = Null
    /\ InError =>
          /\ ~IsNil(controller)
          /\ ~IsNil(player)
          /\ LoadRejected => ~IsNil(media)

\* Destroyed from Error after a failed controller.load().
C8_Witness ==
    /\ destroyedAt = "error"
    /\ LoadRejected
    /\ controller = Null /\ media = Null

\* ------------------------------------------------------------------ C9
\* C9: the first call of destroy(), made from Ready or from Error, throws
\* nothing and leaves the controller, player, format and media null, the
\* listeners removed and the container emptied and detached.
C9_DestroyFromReadyOrError ==
    [][ (destroyCalls = 0 /\ destroyCalls' = 1 /\ pc \in {"ready", "error"}) =>
          /\ Count("throw", "TypeError")' = 0
          /\ Count("unload", "controller")' = Count("unload", "controller") + 1
          /\ controller' = Null
          /\ player' = Null
          /\ format' = Null
          /\ media' = Null
          /\ listeners' = {}
          /\ container' = [children |-> 0, attached |-> FALSE] ]_vars

\* Destroyed once from Error after a failed media selection.
C9_Witness ==
    /\ destroyCalls = 1
    /\ destroyedAt = "error"
    /\ NoneSelected
    /\ controller = Null /\ format = Null

\* ----------------------------------------------------------------- C10
\* C10: when createFirstSupported rejects for the Controller or for the
\* Player, init() rejects with that failure: it calls setError never (no
\* unload and no error event by init()), emits no ready event, and runs no
\* later stage: no selectMedia() after a missing Player, and no boot(), no
\* extension or player resolution either after a missing Controller; and
\* no controller.load() in both cases.
C10_ResolveFailurePropagates ==
    /\ At("reject", "createFirstSupported.Controller") # {} =>
          /\ pc = "rejected" /\ rejection = "NoSupportedModule"
          /\ Count("boot", "controller") = 0
          /\ Count("call", "createAllSupported.Extension") = 0
          /\ Count("call", "createFirstSupported.Player") = 0
          /\ Count("unload", "controller") = 0
    /\ \A role \in {"Controller", "Player"} :
          At("reject", "createFirstSupported." \o role) # {} =>
              /\ pc = "rejected" /\ rejection = "NoSupportedModule"
              /\ Count("emit", "error") = 0
              /\ Count("emit", "ready") = 0
              /\ CountBy("unload", "controller", "init") = 0
              /\ Count("call", "selectMedia") = 0
              /\ Count("load", "controller") = 0
              /\ destroyCalls = 0 => Count("unload", "controller") = 0

\* No Player is supported: init() has rejected with a booted controller.
C10_Witness ==
    /\ At("reject", "createFirstSupported.Player") # {}
    /\ pc = "rejected"
    /\ ~IsNil(controller)
    /\ destroyCalls = 0

\* ----------------------------------------------------------------- C11
\* The fields of the Instance.
fields == <<config, env, controller, player, media, format, extensions,
            listeners, container>>

\* C11: play, pause, seekTo and setVolume, called while the Instance has no
\* controller (before it is resolved, or after destroy()), do not throw an
\* unlabelled error: they do nothing, and leave every field unchanged.
C11_PlaybackMisuse ==
    [][ (call'.fn \in PlaybackOps /\ IsNil(controller)) =>
          /\ ~call'.threw
          /\ UNCHANGED fields ]_vars

\* ----------------------------------------------------------------- C12
\* The effects the last step added to the trace.
Added == SubSeq(log', Len(log) + 1, Len(log'))

\* C12: every call of destroy() first emits the destroy event, to the
\* listeners registered before the call, and only then removes the
\* listeners, unloads the controller and nulls the references, in that
\* order: nothing is torn down before the event goes out.
C12_DestroyEventFirst ==
    [][ (destroyCalls' = destroyCalls + 1) =>
          /\ Added[1].op = "emit" /\ Added[1].arg = "destroy"
          /\ Added[1].heard = ("destroy" \in listeners)
          /\ Added[2].arg = "removeAllListeners"
          /\ ~IsNil(controller) =>
                /\ [k \in 1..Len(Added) |-> Added[k].op] =
                      <<"emit", "call", "unload", "release", "detach">>
                /\ <<controller', player', format', media'>> =
                      <<Null, Null, Null, Null>> ]_vars

\* A destroy event heard by a listener, followed by the teardown.
C12_Witness ==
    \E i \in AtBy("emit", "destroy", "destroy") :
        /\ log[i].heard
        /\ i + 3 <= Len(log)
        /\ log[i + 2].op = "unload"
        /\ log[i + 3].op = "release"
        /\ controller = Null

\* ----------------------------------------------------------------- C13
\* The candidates of the registry of the last call that are supported.
SupportedAt(reg) == { i \in DOMAIN reg : reg[i].supported }

\* The least element of a non-empty set of numbers.
Least(S) == CHOOSE i \in S : \A j \in S : i <= j

\* C13: createFirstSupported, for any role and any ordering of the
\* registry with a supported candidate, returns an instance of the first
\* supported candidate in registry order and constructs no other one.
C13_ResolveFirst ==
    (call.fn = "createFirstSupported" /\ SupportedAt(call.reg) # {}) =>
        LET k == Least(SupportedAt(call.reg)) IN
        /\ call.result.module = Module(call.role, call.reg[k].name)
        /\ call.result.constructed = <<call.reg[k].name>>

\* An unsupported candidate first, then two supported ones: the second
\* candidate of the registry is the one returned.
C13_Witness ==
    /\ call.fn = "createFirstSupported"
    /\ Len(call.reg) = 3
    /\ ~call.reg[1].supported /\ call.reg[2].supported /\ call.reg[3].supported
    /\ call.reg[2].name > call.reg[3].name
    /\ call.result.module.name = call.reg[2].name

\* ----------------------------------------------------------------- C14
\* C14: createFirstSupported fails with NoSupportedModule if and only if
\* no candidate of the registry is supported, the empty registry included;
\* otherwise it returns an instance.
C14_ResolveFirstFails ==
    (call.fn = "createFirstSupported") =>
        /\ (~call.result.ok /\ call.result.error = "NoSupportedModule") <=>
              (SupportedAt(call.reg) = {})
        /\ (SupportedAt(call.reg) # {}) =>
              (call.result.ok /\ call.result.module.role = call.role)

\* A registry of two candidates, neither supported: the call fails.
C14_Witness ==
    /\ call.fn = "createFirstSupported"
    /\ Len(call.reg) = 2
    /\ SupportedAt(call.reg) = {}
    /\ ~call.result.ok

\* ----------------------------------------------------------------- C15
\* C15: createAllSupported returns the instances of exactly the supported
\* candidates, in registry order: the i-th supported candidate of the
\* registry is the i-th element of the result, and the result is empty when
\* none is supported.
C15_ResolveAll ==
    (call.fn = "createAllSupported") =>
        /\ Len(call.result) = Cardinality(SupportedAt(call.reg))
        /\ \A i \in SupportedAt(call.reg) :
              call.result[Cardinality({ j \in SupportedAt(call.reg) : j <= i })]
                 = Module(call.role, call.reg[i].name)

\* Three candidates, the first and the last supported, named out of order.
C15_Witness ==
    /\ call.fn = "createAllSupported"
    /\ Len(call.reg) = 3
    /\ SupportedAt(call.reg) = {1, 3}
    /\ call.reg[1].name > call.reg[3].name
    /\ Len(call.result) = 2

\* ----------------------------------------------------------------- C16
\* The pairs (source, format) that can be played.
Playable(c) ==
    { p \in (1..c.nS) \X (1..c.nF) : c.canPlay[p[1]][p[2]] }

\* C16: selectMedia returns a pair if and only if some source is playable
\* under some format; the pair is that of the earliest playable source, and
\* among the formats that play this source the earliest registered one.
C16_SelectMedia ==
    (call.fn = "selectMedia") =>
        /\ call.result.found <=> (Playable(call) # {})
        /\ call.result.found =>
              /\ <<call.result.source, call.result.format>> \in Playable(call)
              /\ \A p \in Playable(call) :
                    \/ call.result.source < p[1]
                    \/ (call.result.source = p[1] /\ call.result.format <= p[2])

\* Sources [S1, S2], formats [F1, F2], S1 matching only F2 and S2 matching
\* F1: the result is (F2, S1).
C16_Witness ==
    /\ call.fn = "selectMedia"
    /\ call.nS = 2 /\ call.nF = 2
    /\ ~call.canPlay[1][1] /\ call.canPlay[1][2] /\ call.canPlay[2][1]
    /\ call.result = [found |-> TRUE, format |-> 2, source |-> 1]

\* ----------------------------------------------------------------- C17
\* Where in the trace init() started stage k, and where stage k completed.
StartsOf(k) ==
    { i \in DOMAIN log : /\ log[i].op = StageStart[k][1]
                         /\ log[i].arg = StageStart[k][2]
                         /\ log[i].by = "init" }
DoneOf(k) ==
    { i \in DOMAIN log : log[i].op = "resolve" /\ log[i].arg = StageDone[k] }

\* Every stage started so far started once, after the stage before it had
\* started and completed; the polyfill load alone is optional.
StagesInOrder ==
    /\ \A k \in 1..Len(StageStart) : Cardinality(StartsOf(k)) <= 1
    /\ (StartsOf(1) # {}) <=> ~config.ignorePolyfills
    /\ \A k \in 2..Len(StageStart) : \A i \in StartsOf(k) :
          \/ k = 2 /\ config.ignorePolyfills
          \/ \E j \in DoneOf(k - 1) : \E h \in StartsOf(k - 1) : h < j /\ j < i

\* C17: the stages of init() run one after another, in the order polyfill
\* load (optional), environment snapshot, controller resolution, controller
\* boot, extension resolution, player resolution, media selection,
\* controller load, ready; each starts only once the one before it has
\* completed, and controller.load() starts with the format and the media
\* bound.
C17_StagesSequential ==
    [][ /\ StagesInOrder'
        /\ (StartsOf(8)' # StartsOf(8)) => (~IsNil(format') /\ ~IsNil(media')) ]_vars

\* A bootstrap with the polyfill load that went through all nine stages.
C17_Witness ==
    /\ pc = "ready"
    /\ ~config.ignorePolyfills
    /\ \A k \in 1..Len(StageStart) : StartsOf(k) # {}

\* ----------------------------------------------------------------- C18
\* A call of destroy() has run to its end.
DestroyReturned == CountBy("unload", "controller", "destroy") >= 1

\* C18: once destroy() has returned, whenever it was called, the
\* controller, player, format and media references are null and stay so, no
\* ready or error event reaches a listener, and init() raises no unhandled
\* TypeError.
C18_DestroyedIsFinal ==
    DestroyReturned =>
        /\ controller = Null /\ player = Null /\ format = Null /\ media = Null
        /\ \A d \in AtBy("emit", "destroy", "destroy") :
           \A i \in At("emit", "ready") \cup At("emit", "error") :
              i > d => ~log[i].heard
        /\ rejection # "TypeError"

\* ----------------------------------------------------------------- C19
\* C19: setError(error), called while a controller exists, calls
\* controller.unload() and then emits one error event, whose payload is the
\* error it was given, and changes nothing else.
C19_SetErrorFrame ==
    [][ (call'.fn = "setError" /\ ~IsNil(controller)) =>
          /\ ~call'.threw
          /\ Len(call'.effects) = 2
          /\ call'.effects[1].op = "unload" /\ call'.effects[1].arg = "controller"
          /\ call'.effects[2].op = "emit" /\ call'.effects[2].arg = "error"
          /\ call'.effects[2].data = call'.error
          /\ call'.effects[2].heard = ("error" \in listeners)
          /\ UNCHANGED fields
          /\ UNCHANGED <<pc, rejection, log, destroyCalls, destroyedAt>> ]_vars

\* setError called in Ready, the error reaching a listener.
C19_Witness ==
    /\ call.fn = "setError"
    /\ pc = "ready"
    /\ ~call.threw
    /\ call.effects[2].heard
    /\ call.effects[2].data.cause = "E2"

\* ----------------------------------------------------------------- C20
\* C20: once an Instance that reached Ready has been destroyed, unload has
\* been called on the controller, on the player and on every resolved
\* extension, and no reference to any of them is left.
C20_DestroyReleasesAll ==
    (destroyedAt = "ready") =>
        /\ Count("unload", "controller") >= 1
        /\ Count("unload", "player") >= 1
        /\ Count("unload", "extension") >= Len(extensions.list)
        /\ controller = Null /\ player = Null
        /\ extensions.list = <<>>

====
